---- MODULE Spec2Model ----
(***************************************************************************)
(* Model of pytorch_lightning/accelerators/accelerator.py: the Accelerator *)
(* base class, a delegation layer in front of a TrainingTypePlugin (the    *)
(* "Strategy").  The Strategy is a collaborator whose code is not part of  *)
(* accelerator.py; it is modelled as a recording double whose lifecycle    *)
(* methods either return or raise a fault chosen nondeterministically.     *)
(***************************************************************************)
EXTENDS Naturals, FiniteSets, Sequences, TLC

\* ------------------------------------------------------------------ bounds
\* Largest number of invocations recorded per Strategy lifecycle method.
MaxCalls == 1

\* ------------------------------------------------------------------ values
None == "None"
NoFault == "NoFault"

Strategies == {"S1", "S2"}
\* Strategies whose setup() wraps the model for distribution.
Wrapping == {"S2"}
\* Precision plugins passed to the constructor, and ones a Strategy already carries.
Precisions == {"P1"}
PriorPrecisions == {"P0"}
Modules == {"A", "B"}
WrappedModels == {"W(A)", "W(B)"}
ModelValues == Modules \cup WrappedModels \cup {None}
Trainers == {"T1"}
Devices == {"cpu", "cuda:0"}
\* Faults a Strategy method may raise.
Faults == {"RuntimeError", "MisconfigurationException"}
Methods == {"setup_environment", "setup", "teardown"}
Phases == {"uninitialized", "environment_ready", "ready", "torn_down"}

VARIABLES
    pc,                    \* "new" | "constructed" | "failed": state of the Accelerator object
    training_type_plugin,  \* self.training_type_plugin
    precision_slot,        \* Strategy._precision_plugin, per Strategy
    model_slot,            \* Strategy.model, per Strategy
    calls,                 \* per Strategy and method: number of invocations received
    failed,                \* per Strategy: methods that have raised
    phase,                 \* per Strategy: lifecycle phase
    thrown,                \* fault raised by the most recent Strategy invocation (NoFault: it returned)
    result                 \* outcome of the most recent Accelerator call, as seen by the caller

vars == <<pc, training_type_plugin, precision_slot, model_slot, calls, failed, phase,
          thrown, result>>

strategy_vars == <<precision_slot, model_slot, calls, failed, phase, thrown>>

\* ------------------------------------------------------- class definition
\* class Accelerator:  -- no ABC base, so the metaclass is plain `type`.
ClassIsABC == FALSE

\* Methods decorated with @abstractmethod.
AbstractMethods == {"auto_device_count"}

\* Python refuses to instantiate a class only when its metaclass is ABCMeta
\* and it still has abstract methods.
Instantiable == ~(ClassIsABC /\ AbstractMethods # {})

\* ------------------------------------------------------- Strategy double
Wrap(m) ==
    CASE m = "A" -> "W(A)"
      [] m = "B" -> "W(B)"
      [] OTHER -> m

Unwrap(m) ==
    CASE m = "W(A)" -> "A"
      [] m = "W(B)" -> "B"
      [] OTHER -> m

PhaseAfter(m) ==
    CASE m = "setup_environment" -> "environment_ready"
      [] m = "setup" -> "ready"
      [] m = "teardown" -> "torn_down"

Rank(p) ==
    CASE p = "uninitialized" -> 0
      [] p = "environment_ready" -> 1
      [] p = "ready" -> 2
      [] p = "torn_down" -> 3

RootDevice(s) == IF s = "S1" THEN "cpu" ELSE "cuda:0"

\* Strategy s receives a call of lifecycle method m and
\* either returns (f = NoFault) or raises f.
StrategyInvoke(s, m, f) ==
    /\ calls[s][m] < MaxCalls
    /\ calls' = [calls EXCEPT ![s][m] = @ + 1]
    /\ thrown' = f
    /\ failed' = IF f # NoFault THEN [failed EXCEPT ![s] = @ \cup {m}] ELSE failed
    /\ phase' = IF f = NoFault THEN [phase EXCEPT ![s] = PhaseAfter(m)] ELSE phase
    /\ model_slot' = IF f = NoFault /\ m = "setup" /\ s \in Wrapping
                       THEN [model_slot EXCEPT ![s] = Wrap(@)]
                       ELSE model_slot

\* Strategy.lightning_module: the unwrapped module behind Strategy.model.
Strategy_lightning_module(s) == Unwrap(model_slot[s])

\* Another holder of the Accelerator's Strategy (the trainer) assigns the
\* Strategy's model directly.
strategy_model_assigned(s, m) ==
    /\ pc = "constructed"
    /\ s = training_type_plugin
    /\ model_slot[s] # m
    /\ model_slot' = [model_slot EXCEPT ![s] = m]
    /\ UNCHANGED <<pc, training_type_plugin, precision_slot, calls, failed, phase,
                   thrown, result>>

\* ------------------------------------------------------------ Accelerator
Outcome(op, raised, value) == [op |-> op, raised |-> raised, value |-> value]

\* Attribute access on None.
NullDeref(op) ==
    /\ result' = Outcome(op, "AttributeError", None)
    /\ UNCHANGED strategy_vars

\* Variant of __init__ that injects the precision plugin only into an empty slot.
Accelerator_init_keep_existing(precision_plugin, strategy) ==
    /\ pc = "new"
    /\ training_type_plugin' = strategy
    /\ IF precision_plugin # None /\ strategy = None
         THEN /\ pc' = "failed"
              /\ result' = Outcome("__init__", "AttributeError", None)
              /\ UNCHANGED precision_slot
         ELSE /\ precision_slot' =
                    IF precision_plugin # None /\ precision_slot[strategy] = None
                      THEN [precision_slot EXCEPT ![strategy] = precision_plugin]
                      ELSE precision_slot
              /\ pc' = "constructed"
              /\ result' = Outcome("__init__", NoFault, None)
    /\ UNCHANGED <<model_slot, calls, failed, phase, thrown>>

Accelerator_init(precision_plugin, strategy) ==
    /\ pc = "new"
    /\ IF ~Instantiable
         THEN /\ pc' = "failed"
              /\ result' = Outcome("__init__", "TypeError", None)
              /\ UNCHANGED <<training_type_plugin, precision_slot>>
         ELSE /\ training_type_plugin' = strategy
              /\ IF precision_plugin # None
                   THEN IF strategy = None
                          THEN /\ pc' = "failed"
                               /\ result' = Outcome("__init__", "AttributeError", None)
                               /\ UNCHANGED precision_slot
                          ELSE /\ precision_slot' =
                                      [precision_slot EXCEPT ![strategy] = precision_plugin]
                               /\ pc' = "constructed"
                               /\ result' = Outcome("__init__", NoFault, None)
                   ELSE /\ pc' = "constructed"
                        /\ result' = Outcome("__init__", NoFault, None)
                        /\ UNCHANGED precision_slot
    /\ UNCHANGED <<model_slot, calls, failed, phase, thrown>>

\* Variant of setup_environment that re-raises every Strategy fault as RuntimeError.
setup_environment_translating ==
    /\ pc = "constructed"
    /\ IF training_type_plugin = None
         THEN NullDeref("setup_environment")
         ELSE \E f \in Faults \cup {NoFault} :
                /\ StrategyInvoke(training_type_plugin, "setup_environment", f)
                /\ result' = Outcome("setup_environment",
                                     IF f = NoFault THEN NoFault ELSE "RuntimeError", None)
                /\ UNCHANGED precision_slot
    /\ UNCHANGED <<pc, training_type_plugin>>

setup_environment ==
    /\ pc = "constructed"
    /\ IF training_type_plugin = None
         THEN NullDeref("setup_environment")
         ELSE \E f \in Faults \cup {NoFault} :
                /\ StrategyInvoke(training_type_plugin, "setup_environment", f)
                /\ result' = Outcome("setup_environment", f, None)
                /\ UNCHANGED precision_slot
    /\ UNCHANGED <<pc, training_type_plugin>>

\* Variant of setup that rejects the call unless setup_environment was called before.
setup_ordered(trainer) ==
    /\ pc = "constructed"
    /\ IF training_type_plugin = None
         THEN NullDeref("setup")
         ELSE IF calls[training_type_plugin]["setup_environment"] = 0
                THEN /\ result' = Outcome("setup", "RuntimeError", None)
                     /\ UNCHANGED strategy_vars
                ELSE \E f \in Faults \cup {NoFault} :
                       /\ StrategyInvoke(training_type_plugin, "setup", f)
                       /\ result' = Outcome("setup", f, None)
                       /\ UNCHANGED precision_slot
    /\ UNCHANGED <<pc, training_type_plugin>>

setup(trainer) ==
    /\ pc = "constructed"
    /\ IF training_type_plugin = None
         THEN NullDeref("setup")
         ELSE \E f \in Faults \cup {NoFault} :
                /\ StrategyInvoke(training_type_plugin, "setup", f)
                /\ result' = Outcome("setup", f, None)
                /\ UNCHANGED precision_slot
    /\ UNCHANGED <<pc, training_type_plugin>>

\* Variant of the model getter that returns the unwrapped module.
model_unwrapped ==
    /\ pc = "constructed"
    /\ IF training_type_plugin = None
         THEN NullDeref("model")
         ELSE /\ result' = Outcome("model", NoFault,
                                   Strategy_lightning_module(training_type_plugin))
              /\ UNCHANGED strategy_vars
    /\ UNCHANGED <<pc, training_type_plugin>>

model ==
    /\ pc = "constructed"
    /\ IF training_type_plugin = None
         THEN NullDeref("model")
         ELSE /\ result' = Outcome("model", NoFault, model_slot[training_type_plugin])
              /\ UNCHANGED strategy_vars
    /\ UNCHANGED <<pc, training_type_plugin>>

model_setter(new_model) ==
    /\ pc = "constructed"
    /\ IF training_type_plugin = None
         THEN NullDeref("model.setter")
         ELSE /\ model_slot' = [model_slot EXCEPT ![training_type_plugin] = new_model]
              /\ result' = Outcome("model.setter", NoFault, None)
              /\ UNCHANGED <<precision_slot, calls, failed, phase, thrown>>
    /\ UNCHANGED <<pc, training_type_plugin>>

lightning_module ==
    /\ pc = "constructed"
    /\ IF training_type_plugin = None
         THEN NullDeref("lightning_module")
         ELSE /\ result' = Outcome("lightning_module", NoFault,
                                   Strategy_lightning_module(training_type_plugin))
              /\ UNCHANGED strategy_vars
    /\ UNCHANGED <<pc, training_type_plugin>>

root_device ==
    /\ pc = "constructed"
    /\ IF training_type_plugin = None
         THEN NullDeref("root_device")
         ELSE /\ result' = Outcome("root_device", NoFault, RootDevice(training_type_plugin))
              /\ UNCHANGED strategy_vars
    /\ UNCHANGED <<pc, training_type_plugin>>

\* Variant of teardown that does nothing unless setup has completed.
teardown_after_setup_only ==
    /\ pc = "constructed"
    /\ IF training_type_plugin = None
         THEN NullDeref("teardown")
         ELSE IF phase[training_type_plugin] # "ready"
                THEN /\ result' = Outcome("teardown", NoFault, None)
                     /\ UNCHANGED strategy_vars
                ELSE \E f \in Faults \cup {NoFault} :
                       /\ StrategyInvoke(training_type_plugin, "teardown", f)
                       /\ result' = Outcome("teardown", f, None)
                       /\ UNCHANGED precision_slot
    /\ UNCHANGED <<pc, training_type_plugin>>

\* Variant of teardown that also drops the Strategy's model.
teardown_clearing ==
    /\ pc = "constructed"
    /\ IF training_type_plugin = None
         THEN NullDeref("teardown")
         ELSE \E f \in Faults \cup {NoFault} :
                /\ calls[training_type_plugin]["teardown"] < MaxCalls
                /\ calls' = [calls EXCEPT ![training_type_plugin]["teardown"] = @ + 1]
                /\ thrown' = f
                /\ failed' = IF f # NoFault
                               THEN [failed EXCEPT ![training_type_plugin] = @ \cup {"teardown"}]
                               ELSE failed
                /\ phase' = IF f = NoFault
                              THEN [phase EXCEPT ![training_type_plugin] = "torn_down"]
                              ELSE phase
                /\ model_slot' = [model_slot EXCEPT ![training_type_plugin] = None]
                /\ result' = Outcome("teardown", f, None)
                /\ UNCHANGED precision_slot
    /\ UNCHANGED <<pc, training_type_plugin>>

teardown ==
    /\ pc = "constructed"
    /\ IF training_type_plugin = None
         THEN NullDeref("teardown")
         ELSE \E f \in Faults \cup {NoFault} :
                /\ StrategyInvoke(training_type_plugin, "teardown", f)
                /\ result' = Outcome("teardown", f, None)
                /\ UNCHANGED precision_slot
    /\ UNCHANGED <<pc, training_type_plugin>>

\* Variant of get_device_stats that returns an empty mapping.
get_device_stats_default(device) ==
    /\ pc = "constructed"
    /\ result' = Outcome("get_device_stats", NoFault, "{}")
    /\ UNCHANGED <<pc, training_type_plugin, strategy_vars>>

get_device_stats(device) ==
    /\ pc = "constructed"
    /\ result' = Outcome("get_device_stats", "NotImplementedError", None)
    /\ UNCHANGED <<pc, training_type_plugin, strategy_vars>>

\* Static method: callable on the class, with or without an instance.  Its
\* body is a docstring only, so the call returns None.
auto_device_count ==
    /\ result' = Outcome("auto_device_count", NoFault, None)
    /\ UNCHANGED <<pc, training_type_plugin, strategy_vars>>

\* ---------------------------------------------------------- specification
Init ==
    /\ pc = "new"
    /\ training_type_plugin = None
    /\ \E q \in PriorPrecisions \cup {None} : precision_slot = [s \in Strategies |-> q]
    /\ model_slot = [s \in Strategies |-> "A"]
    /\ calls = [s \in Strategies |-> [m \in Methods |-> 0]]
    /\ failed = [s \in Strategies |-> {}]
    /\ phase = [s \in Strategies |-> "uninitialized"]
    /\ thrown = NoFault
    /\ result = Outcome(None, NoFault, None)

Construct == \E p \in Precisions \cup {None}, s \in Strategies \cup {None} : Accelerator_init(p, s)
SetupEnvironment == setup_environment
Setup == \E t \in Trainers : setup(t)
GetModel == model
SetModel == \E m \in ModelValues : model_setter(m)
GetLightningModule == lightning_module
GetRootDevice == root_device
Teardown == teardown
GetDeviceStats == \E d \in Devices : get_device_stats(d)
AutoDeviceCount == auto_device_count
StrategyModelAssigned == \E s \in Strategies, m \in ModelValues : strategy_model_assigned(s, m)

Next ==
    \/ Construct
    \/ SetupEnvironment
    \/ Setup
    \/ GetModel
    \/ SetModel
    \/ GetLightningModule
    \/ GetRootDevice
    \/ Teardown
    \/ GetDeviceStats
    \/ AutoDeviceCount
    \/ StrategyModelAssigned

Spec == Init /\ [][Next]_vars

TypeOK ==
    /\ pc \in {"new", "constructed", "failed"}
    /\ training_type_plugin \in Strategies \cup {None}
    /\ precision_slot \in [Strategies -> Precisions \cup PriorPrecisions \cup {None}]
    /\ model_slot \in [Strategies -> ModelValues]
    /\ calls \in [Strategies -> [Methods -> 0..MaxCalls]]
    /\ failed \in [Strategies -> SUBSET Methods]
    /\ phase \in [Strategies -> Phases]

\* ------------------------------------------------------------- properties
HasStrategy == pc = "constructed" /\ training_type_plugin \in Strategies

\* The Accelerator call of lifecycle method m.
Call(m) ==
    CASE m = "setup_environment" -> setup_environment
      [] m = "setup" -> \E t \in Trainers : setup(t)
      [] m = "teardown" -> teardown

\* C1: after Accelerator(P, S) returns for a Strategy S, S's precision slot
\* equals P when P is not None (whatever S held before) and is left as it
\* was when P is None; no other Strategy's slot is written.
C1_ConstructorPrecision ==
    [][\A p \in Precisions \cup {None}, s \in Strategies :
         Accelerator_init(p, s) =>
            /\ pc' = "constructed"
            /\ precision_slot'[s] = (IF p # None THEN p ELSE precision_slot[s])
            /\ \A o \in Strategies \ {s} : precision_slot'[o] = precision_slot[o]]_vars

C1_Witness ==
    /\ result.op = "__init__"
    /\ result.raised = NoFault
    /\ training_type_plugin = "S1"
    /\ precision_slot["S1"] = "P1"
    /\ precision_slot["S2"] = "P0"

\* C2: the model setter stores X in the Strategy's model slot, and a model
\* read returns whatever the Strategy's model slot holds at that moment
\* (so a read right after setting X returns X, and a read after the Strategy
\* changed its slot by itself returns the changed value).
C2_ModelRoundTrip ==
    [][/\ \A x \in ModelValues :
            (HasStrategy /\ model_setter(x)) =>
               /\ model_slot'[training_type_plugin] = x
               /\ result'.raised = NoFault
       /\ (HasStrategy /\ model) =>
               /\ result'.value = model_slot[training_type_plugin]
               /\ result'.raised = NoFault
               /\ model_slot' = model_slot]_vars

C2_Witness ==
    /\ HasStrategy
    /\ result.op = "model"
    /\ result.value = "W(B)"
    /\ model_slot[training_type_plugin] = "W(B)"

\* C3 (as stated): the phase never moves back, setup is accepted only after
\* setup_environment has been called, and after teardown no further
\* setup_environment/setup/model operation is accepted.
C3_StrictLifecycle ==
    [][/\ \A s \in Strategies : Rank(phase'[s]) >= Rank(phase[s])
       /\ (HasStrategy /\ Call("setup") /\ calls' # calls) =>
              calls[training_type_plugin]["setup_environment"] > 0
       /\ (HasStrategy /\ phase[training_type_plugin] = "torn_down") =>
              /\ ~(Call("setup_environment") /\ calls' # calls)
              /\ ~(Call("setup") /\ calls' # calls)
              /\ ~(model /\ result'.raised = NoFault)
              /\ ~(\E x \in ModelValues : model_setter(x) /\ result'.raised = NoFault)]_vars

\* C3 (amended): the Accelerator enforces no lifecycle order.  In every
\* phase a setup_environment, setup or teardown call is forwarded to the
\* Strategy as exactly one invocation, and the phase afterwards is the one
\* that method establishes when it returns (unchanged when it raises); so
\* the phase advances by one, and does not move back, exactly on the calls
\* issued in the documented order.
C3_NoOrderEnforced ==
    [][\A m \in Methods :
         (HasStrategy /\ Call(m)) =>
            /\ calls'[training_type_plugin][m] = calls[training_type_plugin][m] + 1
            /\ result'.raised = NoFault =>
                  phase'[training_type_plugin] = PhaseAfter(m)
            /\ result'.raised # NoFault => phase' = phase
            /\ (result'.raised = NoFault
                  /\ Rank(PhaseAfter(m)) = Rank(phase[training_type_plugin]) + 1) =>
                  Rank(phase'[training_type_plugin]) = Rank(phase[training_type_plugin]) + 1]_vars

C3_Witness ==
    /\ HasStrategy
    /\ result.op = "setup"
    /\ result.raised = NoFault
    /\ calls[training_type_plugin]["setup_environment"] = 0
    /\ calls[training_type_plugin]["setup"] = 1
    /\ phase[training_type_plugin] = "ready"

\* C4: a fault raised by the Strategy inside setup_environment, setup or
\* teardown is the fault the caller of the Accelerator sees (and no fault is
\* seen when the Strategy raised none); the Strategy's method is invoked
\* exactly once per Accelerator call, and no other Strategy method is
\* invoked.
C4_FaultPropagation ==
    [][\A m \in Methods :
         (HasStrategy /\ Call(m)) =>
            /\ result'.op = m
            /\ result'.raised = thrown'
            /\ calls' = [calls EXCEPT ![training_type_plugin][m] = @ + 1]]_vars

C4_Witness ==
    /\ HasStrategy
    /\ result.op = "setup"
    /\ result.raised = "MisconfigurationException"
    /\ thrown = "MisconfigurationException"
    /\ calls[training_type_plugin]["setup"] = 1

\* C5: when setup_environment or setup raised earlier, or setup was never
\* called, a teardown call is still forwarded to the Strategy, and the
\* caller sees a fault only if the Strategy's teardown raised it.
SetupIncomplete(s) ==
    \/ failed[s] \cap {"setup_environment", "setup"} # {}
    \/ calls[s]["setup"] = 0

C5_TeardownAfterFailure ==
    [][(HasStrategy /\ SetupIncomplete(training_type_plugin) /\ teardown) =>
          /\ calls'[training_type_plugin]["teardown"] =
                 calls[training_type_plugin]["teardown"] + 1
          /\ result'.op = "teardown"
          /\ result'.raised = thrown']_vars

C5_Witness ==
    /\ HasStrategy
    /\ "setup" \in failed[training_type_plugin]
    /\ result.op = "teardown"
    /\ result.raised = NoFault
    /\ calls[training_type_plugin]["teardown"] = 1

\* C6 (as stated): constructing with a None Strategy fails at construction
\* with an invalid-argument error, so no Accelerator with a None Strategy
\* reference exists and no operation ever dereferences None.
InvalidArgumentErrors == {"ValueError", "TypeError"}

C6_NullStrategyRejected ==
    /\ pc = "constructed" => training_type_plugin # None
    /\ pc = "failed" => result.raised \in InvalidArgumentErrors
    /\ result.raised # "AttributeError"

\* C7 (as stated): once constructed, the Accelerator refers to a Strategy
\* (never None), and every later step leaves that reference as it was.
C7_StrategyReferenceInvariant ==
    [][pc' = "constructed" =>
          /\ training_type_plugin' \in Strategies
          /\ pc = "constructed" => training_type_plugin' = training_type_plugin]_vars

\* C8: get_device_stats on the base Accelerator raises NotImplementedError
\* for every device and in every phase, returns no value, and leaves the
\* Strategy and the Accelerator's reference to it untouched.
C8_GetDeviceStatsUnimplemented ==
    [][\A d \in Devices :
         get_device_stats(d) =>
            /\ result'.op = "get_device_stats"
            /\ result'.raised = "NotImplementedError"
            /\ result'.value = None
            /\ UNCHANGED strategy_vars
            /\ UNCHANGED training_type_plugin]_vars

C8_Witness ==
    /\ HasStrategy
    /\ phase[training_type_plugin] = "torn_down"
    /\ result.op = "get_device_stats"
    /\ result.raised = "NotImplementedError"

\* C9 (as stated): the base Accelerator cannot be used without overriding
\* auto_device_count: it is never instantiated, and a call of
\* auto_device_count on it raises instead of returning a value.
C9_AbstractEnforced ==
    /\ pc # "constructed"
    /\ result.op = "auto_device_count" => result.raised # NoFault

\* C10: on a Strategy whose own lifecycle methods leave its model alone, the
\* Accelerator's setup_environment, setup, teardown and the getters model,
\* lightning_module and root_device leave the Strategy's model and precision
\* slots unchanged; the getters write no Strategy state at all; and a
\* teardown whose Strategy call raised nothing raises nothing.
C10_FrameCondition ==
    [][/\ (HasStrategy /\ training_type_plugin \notin Wrapping
             /\ (\/ setup_environment
                 \/ \E t \in Trainers : setup(t)
                 \/ teardown
                 \/ model
                 \/ lightning_module
                 \/ root_device)) =>
              UNCHANGED <<model_slot, precision_slot>>
       /\ (HasStrategy /\ (model \/ lightning_module \/ root_device)) =>
              UNCHANGED strategy_vars
       /\ (HasStrategy /\ teardown /\ thrown' = NoFault) =>
              result'.raised = NoFault]_vars

\* The end of the scenario: setup_environment, setup and teardown each
\* called once without a fault on a non-wrapping Strategy whose model was
\* set to B.
C10_Witness ==
    /\ HasStrategy
    /\ training_type_plugin \notin Wrapping
    /\ \A m \in Methods : calls[training_type_plugin][m] = 1
    /\ failed[training_type_plugin] = {}
    /\ result.op = "teardown"
    /\ result.raised = NoFault
    /\ model_slot[training_type_plugin] = "B"
====
